---- MODULE Spec2Model ----
(***************************************************************************)
(* A model of the Flask weather backend in src/app.py.                     *)
(*                                                                         *)
(* Seven routes: three static ones (/api/health, /api/test, /) and four    *)
(* that forward one GET to the weather provider and reshape its JSON       *)
(* (/api/weather/current, /api/weather/forecast, /api/location/search,     *)
(* /api/location/reverse).  A request is a small state machine:           *)
(*   idle -> start -> call -> normalize -> done       (success)            *)
(*                      \-------\-> except -> done    (failure)            *)
(* Each handler's locals, its outbound calls, the provider's answer and    *)
(* the responses it returns are kept per request.                          *)
(*                                                                         *)
(* Representation.                                                         *)
(*  - A JSON object / Python dict is a TLA+ record whose DOMAIN is the set *)
(*    of keys present; a JSON array / Python list is a sequence.           *)
(*  - Python's None is <<>> and a present value v is <<v>> where a value   *)
(*    may be None (request.args.get(k), loc.get('lat')).                   *)
(*  - Provider floats are integers in hundredths (15.04 is 1504); a value  *)
(*    rounded to one decimal is an integer in tenths (15.0 is 150).        *)
(*  - The search text q is a sequence of characters, so that len(q) is     *)
(*    Len(q).                                                              *)
(*  - Provider bodies are well typed: a field that is present holds a      *)
(*    value of the type the provider documents.                            *)
(***************************************************************************)
EXTENDS Integers, Sequences, FiniteSets, TLC

VARIABLES
    OPENWEATHER_API_KEY,   \* the module global read at import (line 15)
    jsonErrorIsRequestException,
                           \* the installed requests library: whether the
                           \* error of response.json() is a RequestException
                           \* (requests >= 2.27) or a plain ValueError
    pc,                    \* pc[r]: where request r is in its handler
    route,                 \* route[r]: the path the request came in on
    args,                  \* args[r]: request.args, the query parameters
    locals,                \* locals[r]: the handler's local variables
    outbound,              \* outbound[r]: the requests.get calls issued
    answer,                \* answer[r]: <<>> or <<the provider's answer>>
    exc,                   \* exc[r]: the exception raised inside try
    responses              \* responses[r]: the responses returned

vars == <<OPENWEATHER_API_KEY, jsonErrorIsRequestException, pc, route, args,
          locals, outbound, answer, exc, responses>>

-----------------------------------------------------------------------------
(* Bounds of the model *)

\* Requests the server can hold at once (worker threads).
NumReqs == 2

\* Longest `list` the provider returns for a forecast; larger than the 5
\* entries the handler keeps.
MaxList == 6

\* Longest list of matches the geocoding provider returns.
MaxMatches == 2

Reqs == 1..NumReqs

-----------------------------------------------------------------------------
(* Python values *)

None == <<>>
Some(v) == <<v>>

\* dict.get(key, default) on a dict d
DictGet(d, key, default) == IF key \in DOMAIN d THEN d[key] ELSE default

\* dict.get(key) on a dict d: None when the key is absent
DictGetOpt(d, key) == IF key \in DOMAIN d THEN Some(d[key]) ELSE None

\* The dict d without key k (a provider body that lacks the field).
Without(d, k) == [x \in DOMAIN d \ {k} |-> d[x]]

\* d with key k of the nested dict d[outer] removed.
WithoutIn(d, outer, k) ==
    IF outer \in DOMAIN d THEN [d EXCEPT ![outer] = Without(d[outer], k)] ELSE d

\* round(x, 1) of a float given in hundredths, as tenths (half away from
\* zero; the provider values of the model never end in 5 hundredths, where
\* Python's result depends on the binary representation).
Round1(h) == IF h >= 0 THEN (h + 5) \div 10 ELSE -((5 - h) \div 10)

\* round(m / 1000, 1): metres to kilometres, in tenths.
KmTenths(m) == (m + 50) \div 100

\* round(m / 1609.34, 1): metres to miles, in tenths.
MileTenths(m) == (m * 2000 + 160934) \div (2 * 160934)

\* str.capitalize() on the descriptions the provider of the model sends:
\* first character upper-cased, the rest lower-cased.
Capitalize(s) ==
    CASE s = "clear sky" -> "Clear sky"
      [] s = "light Rain" -> "Light rain"
      [] s = "Snow" -> "Snow"
      [] s = "" -> ""
      [] OTHER -> s

-----------------------------------------------------------------------------
(* get_weather_icon, lines 17-30 *)

icon_map ==
    [c \in {"01d", "01n", "02d", "02n", "03d", "03n", "04d", "04n", "09d",
            "09n", "10d", "10n", "11d", "11n", "13d", "13n", "50d", "50n"} |->
        CASE c = "01d" -> "sun"
          [] c = "01n" -> "moon"
          [] c = "02d" -> "cloud-sun"
          [] c = "02n" -> "cloud-moon"
          [] c \in {"03d", "03n", "04d", "04n"} -> "cloud"
          [] c \in {"09d", "09n", "10d", "10n"} -> "cloud-rain"
          [] c \in {"11d", "11n"} -> "bolt"
          [] c \in {"13d", "13n"} -> "snowflake"
          [] c \in {"50d", "50n"} -> "smog"]

\* Faulty variant: another default symbol for unknown codes.
get_weather_icon_CloudDefault(weather_code) ==
    DictGet(icon_map, weather_code, "cloud")

get_weather_icon(weather_code) == DictGet(icon_map, weather_code, "sun")

-----------------------------------------------------------------------------
(* Exceptions *)

NoExc == [type |-> "None", msg |-> ""]

\* KeyError(k); str(e) is the key in quotes.
KeyError(k) == [type |-> "KeyError", msg |-> "'" \o k \o "'"]

\* seq[0] on an empty list.
IndexError == [type |-> "IndexError", msg |-> "list index out of range"]

\* requests.get cannot reach the provider.
ConnectionError ==
    [type |-> "ConnectionError", msg |-> "Failed to establish a new connection"]

\* response.raise_for_status(): HTTPError for a 4xx or 5xx status, nothing
\* otherwise (line 70, 140, 192, 230).
raise_for_status(status) ==
    IF 400 <= status /\ status < 500
    THEN [type |-> "HTTPError", msg |-> ToString(status) \o " Client Error"]
    ELSE IF 500 <= status /\ status < 600
    THEN [type |-> "HTTPError", msg |-> ToString(status) \o " Server Error"]
    ELSE NoExc

\* response.json() on a body that is not JSON.
JSONDecodeError(asRequestException) ==
    [type |-> IF asRequestException THEN "JSONDecodeError" ELSE "ValueError",
     msg |-> "Expecting value: line 1 column 1 (char 0)"]

\* isinstance(e, requests.exceptions.RequestException)
IsRequestException(e) ==
    e.type \in {"ConnectionError", "HTTPError", "JSONDecodeError"}

\* The reads data[k1][k2]... of a path, in order: the exception the first
\* failing subscript raises, NoExc when all succeed.  "[0]" is the index 0
\* of a list.
RECURSIVE Subscript(_, _)
Subscript(d, path) ==
    IF path = <<>> THEN NoExc
    ELSE IF Head(path) = "[0]"
    THEN IF Len(d) = 0 THEN IndexError ELSE Subscript(d[1], Tail(path))
    ELSE IF Head(path) \notin DOMAIN d THEN KeyError(Head(path))
    ELSE Subscript(d[Head(path)], Tail(path))

\* The exception of the first failing read of a sequence of reads.
RECURSIVE FirstFault(_, _)
FirstFault(d, reads) ==
    IF reads = <<>> THEN NoExc
    ELSE IF Subscript(d, Head(reads)) # NoExc THEN Subscript(d, Head(reads))
    ELSE FirstFault(d, Tail(reads))

-----------------------------------------------------------------------------
(* Responses *)

\* jsonify(v) of a dict, with a status.
JsonObject(status, v) == [status |-> status, kind |-> "object", body |-> v]

\* jsonify(v) of a list: the body is v itself.
JsonArray(status, v) == [status |-> status, kind |-> "array", items |-> v]

\* A str returned from a view: an HTML page.
Html(status, text) == [status |-> status, kind |-> "html", text |-> text]

ErrorResponse(status, message) == JsonObject(status, [error |-> message])

-----------------------------------------------------------------------------
(* get_current_weather, lines 41-119 *)

\* Lines 50-52: the query parameters with their defaults.
WeatherArgs(a) ==
    [city |-> DictGet(a, "city", "London"),
     country |-> DictGet(a, "country", "UK"),
     units |-> DictGet(a, "units", "metric")]

\* Lines 59-66: the query sent to the provider; units is left out for
\* "standard".
CurrentParams(l, key) ==
    IF l.units # "standard"
    THEN [q |-> l.city \o "," \o l.country, appid |-> key, units |-> l.units]
    ELSE [q |-> l.city \o "," \o l.country, appid |-> key]

\* Faulty variant: Fahrenheit for imperial only, so that standard is
\* labelled Celsius.
UnitLabel_ImperialOnly(units) == IF units = "imperial" THEN "degF" ELSE "degC"

\* Line 89: the temperature unit label; "degC" and "degF" stand for the
\* degree-sign labels of the source.
UnitLabel(units) == IF units = "metric" THEN "degC" ELSE "degF"

\* Line 103: visibility, defaulting to 10000 m, in km for metric and in
\* miles otherwise, to one decimal.
Visibility(data, units) ==
    IF units = "metric"
    THEN KmTenths(DictGet(data, "visibility", 10000))
    ELSE MileTenths(DictGet(data, "visibility", 10000))

\* Lines 75-110: the subscripts of data in the order the dict literal
\* evaluates them (.get reads cannot fail and are left out, but
\* data['wind'] in data['wind'].get('deg', 0) can).
CurrentReads ==
    << <<"name">>, <<"sys", "country">>, <<"coord", "lat">>,
       <<"coord", "lon">>, <<"main", "temp">>, <<"main", "feels_like">>,
       <<"main", "temp_min">>, <<"main", "temp_max">>,
       <<"weather", "[0]", "main">>, <<"weather", "[0]", "description">>,
       <<"weather", "[0]", "icon">>, <<"weather", "[0]", "icon">>,
       <<"main", "humidity">>, <<"main", "pressure">>, <<"wind", "speed">>,
       <<"wind">>, <<"clouds", "all">>, <<"sys", "sunrise">>,
       <<"sys", "sunset">>, <<"timezone">> >>

\* Lines 75-110: weather_data, when every read succeeds.
WeatherData(data, units) ==
    [location |->
        [city |-> data.name,
         country |-> data.sys.country,
         coordinates |-> [lat |-> data.coord.lat, lon |-> data.coord.lon]],
     temperature |->
        [current |-> Round1(data.main.temp),
         feels_like |-> Round1(data.main.feels_like),
         min |-> Round1(data.main.temp_min),
         max |-> Round1(data.main.temp_max),
         unit |-> UnitLabel(units)],
     weather |->
        [main |-> data.weather[1].main,
         description |-> Capitalize(data.weather[1].description),
         icon |-> data.weather[1].icon,
         icon_class |-> get_weather_icon(data.weather[1].icon)],
     details |->
        [humidity |-> data.main.humidity,
         pressure |-> data.main.pressure,
         wind_speed |-> Round1(data.wind.speed),
         wind_deg |-> DictGet(data.wind, "deg", 0),
         cloudiness |-> data.clouds.all,
         visibility |-> Visibility(data, units)],
     system |->
        [sunrise |-> data.sys.sunrise,
         sunset |-> data.sys.sunset,
         timezone |-> data.timezone]]

\* Faulty variant: except Exception placed first, shadowing the other two
\* clauses.
CurrentExcept_CatchAllFirst(e) ==
    Some(ErrorResponse(500, "Unexpected error: " \o e.msg))

\* Lines 114-119: the except clauses, in order.  <<>> when no clause
\* matches and the exception leaves the handler.
CurrentExcept(e) ==
    IF IsRequestException(e)
    THEN Some(ErrorResponse(500, "Weather API request failed: " \o e.msg))
    ELSE IF e.type = "KeyError"
    THEN Some(ErrorResponse(500,
              "Invalid response format from weather API: " \o e.msg))
    ELSE Some(ErrorResponse(500, "Unexpected error: " \o e.msg))

-----------------------------------------------------------------------------
(* get_forecast, lines 121-172 *)

\* Line 133 and the slice of line 145.
ForecastCount == 5

\* Lines 130-137.
ForecastParams(l, key) ==
    IF l.units # "standard"
    THEN [q |-> l.city \o "," \o l.country, appid |-> key,
          cnt |-> ForecastCount, units |-> l.units]
    ELSE [q |-> l.city \o "," \o l.country, appid |-> key,
          cnt |-> ForecastCount]

\* data['list'][:5]
Slice(list) ==
    SubSeq(list, 1, IF Len(list) < ForecastCount THEN Len(list)
                    ELSE ForecastCount)

\* Lines 146-160: the subscripts of one item, in order.
ItemReads ==
    << <<"dt_txt">>, <<"main", "temp">>, <<"main", "feels_like">>,
       <<"weather", "[0]", "main">>, <<"weather", "[0]", "description">>,
       <<"weather", "[0]", "icon">>, <<"weather", "[0]", "icon">>,
       <<"main", "humidity">>, <<"wind", "speed">> >>

\* Lines 146-160: the entry appended for one item.
ForecastEntry(item) ==
    [datetime |-> item.dt_txt,
     temperature |-> Round1(item.main.temp),
     feels_like |-> Round1(item.main.feels_like),
     weather |->
        [main |-> item.weather[1].main,
         description |-> Capitalize(item.weather[1].description),
         icon |-> item.weather[1].icon,
         icon_class |-> get_weather_icon(item.weather[1].icon)],
     details |->
        [humidity |-> item.main.humidity,
         wind_speed |-> Round1(item.wind.speed)]]

\* Lines 162-169: the subscripts of the final dict, in order.
ForecastReads == << <<"city", "name">>, <<"city", "country">> >>

\* Lines 162-169.
ForecastReport(data, forecast, units) ==
    [location |-> [city |-> data.city.name, country |-> data.city.country],
     forecast |-> forecast,
     units |-> units]

\* Faulty variant: the error is added to what was built so far.
GenericExcept_Partial(e, l) ==
    Some(JsonObject(500, IF "forecast" \in DOMAIN l
                         THEN [error |-> e.msg, forecast |-> l.forecast]
                         ELSE [error |-> e.msg]))

\* Lines 171-172, 207-208, 245-246: except Exception.  The body is the
\* error alone; the entries built so far (l.forecast) are dropped.
GenericExcept(e, l) == Some(ErrorResponse(500, e.msg))

-----------------------------------------------------------------------------
(* search_location, lines 174-208, and reverse_geocode, lines 210-246 *)

\* Faulty variant: only the empty query is rejected.
QueryTooShort_EmptyOnly(query) == query = <<>>

\* Line 179: not query or len(query) < 2
QueryTooShort(query) == query = <<>> \/ Len(query) < 2

\* Lines 185-189.
SearchLimit == 5
SearchParams(l, key) == [q |-> l.query, limit |-> SearchLimit, appid |-> key]

\* Lines 197-203 and 235-241: one match, with '' and None for what the
\* provider left out.
LocationMatch(loc) ==
    [name |-> DictGet(loc, "name", ""),
     state |-> DictGet(loc, "state", ""),
     country |-> DictGet(loc, "country", ""),
     lat |-> DictGetOpt(loc, "lat"),
     lon |-> DictGetOpt(loc, "lon")]

\* Lines 195-203: processed_locations.
ProcessedLocations(locations) ==
    [i \in 1..Len(locations) |-> LocationMatch(locations[i])]

\* `not v` for v = request.args.get(k): None or the empty string.
Falsy(v) == v = None \/ v[1] = ""

\* Faulty variant: `and` for `or`.
CoordinatesMissing_Both(lat, lon) == Falsy(lat) /\ Falsy(lon)

\* Line 216: not lat or not lon
CoordinatesMissing(lat, lon) == Falsy(lat) \/ Falsy(lon)

\* Lines 222-227.
ReverseLimit == 1
ReverseParams(l, key) ==
    [lat |-> l.lat[1], lon |-> l.lon[1], limit |-> ReverseLimit, appid |-> key]

\* Faulty variant: the last match instead of the first.
ReverseResult_Last(locations) ==
    IF locations # <<>>
    THEN JsonObject(200, LocationMatch(locations[Len(locations)]))
    ELSE ErrorResponse(404, "No location found for these coordinates")

\* Lines 233-243: the first match, or 404 for an empty list.
ReverseResult(locations) ==
    IF locations # <<>>
    THEN JsonObject(200, LocationMatch(locations[1]))
    ELSE ErrorResponse(404, "No location found for these coordinates")

-----------------------------------------------------------------------------
(* The static routes: health_check 32-39, test_endpoint 248-265, index 267 *)

health_check ==
    JsonObject(200, [status |-> "healthy", service |-> "Weather API",
                     version |-> "1.0.0"])

test_endpoint ==
    JsonObject(200,
        [message |-> "Weather API is working correctly!",
         endpoints |->
            [health |-> "/api/health",
             current_weather |-> "/api/weather/current?city=London&country=UK",
             forecast |-> "/api/weather/forecast?city=London",
             location_search |-> "/api/location/search?q=London",
             test |-> "/api/test"],
         example_queries |->
            <<"http://localhost:5000/api/weather/current?city=London",
              "http://localhost:5000/api/weather/current?city=Delhi&country=IN",
              "http://localhost:5000/api/weather/current?city=New York&country=US&units=imperial">>])

index == Html(200, "<html>...<h1>Weather API</h1>...</html>")

-----------------------------------------------------------------------------
(* The environment: inbound requests and the provider's answers *)

WeatherRoutes == {"/api/weather/current", "/api/weather/forecast"}
StaticRoutes == {"/api/health", "/api/test", "/"}
Routes == WeatherRoutes \cup StaticRoutes
              \cup {"/api/location/search", "/api/location/reverse"}

NoArgs == [k \in {} |-> ""]

\* "kelvin" stands for a units value outside the three documented ones.
UnitsValues == {"metric", "imperial", "standard", "kelvin"}

WeatherQueries ==
    {NoArgs, [city |-> "Paris"], [city |-> "Paris", country |-> "FR"],
     [city |-> "Paris", country |-> "FR", units |-> "imperial"]}
        \cup {[units |-> u] : u \in UnitsValues}

SearchQueries ==
    {NoArgs, [q |-> <<>>], [q |-> <<"L">>], [q |-> <<"L", "o">>],
     [q |-> <<"L", "o", "n">>]}

ReverseQueries ==
    {NoArgs, [lat |-> "48.85"], [lon |-> "2.35"],
     [lat |-> "", lon |-> "2.35"], [lat |-> "48.85", lon |-> ""],
     [lat |-> "", lon |-> ""], [lat |-> "48.85", lon |-> "2.35"]}

\* The query strings a client may send on a route.
Queries(rt) ==
    CASE rt \in WeatherRoutes -> WeatherQueries
      [] rt = "/api/location/search" -> SearchQueries
      [] rt = "/api/location/reverse" -> ReverseQueries
      [] OTHER -> {NoArgs}

\* Icon codes: the 18 of the provider's vocabulary and two outside it.
IconCodes == DOMAIN icon_map \cup {"99x", ""}

DescriptionOf(icon) ==
    CASE icon \in {"10d", "10n"} -> "light Rain"
      [] icon \in {"13d", "13n"} -> "Snow"
      [] OTHER -> "clear sky"

\* A complete current-weather body of the provider.
GoodWeather(icon) ==
    [name |-> "Paris",
     sys |-> [country |-> "FR", sunrise |-> 1700000000, sunset |-> 1700030000],
     coord |-> [lat |-> 4885, lon |-> 235],
     main |-> [temp |-> 1504, feels_like |-> 1446, temp_min |-> 1391,
               temp_max |-> 1609, humidity |-> 80, pressure |-> 1013],
     weather |-> <<[main |-> "Clear", description |-> DescriptionOf(icon),
                    icon |-> icon]>>,
     wind |-> [speed |-> 412, deg |-> 270],
     clouds |-> [all |-> 20],
     visibility |-> 10000,
     timezone |-> 3600]

\* The fields a current-weather body may lack: <<"", k>> is the top-level
\* key k, <<o, k>> the key k of the dict at o, <<"weather", "[0]">> the
\* first element of the weather list (the list is empty).
WeatherFields ==
    {<<"", "name">>, <<"", "sys">>, <<"sys", "country">>, <<"", "coord">>,
     <<"coord", "lat">>, <<"coord", "lon">>, <<"", "main">>,
     <<"main", "temp">>, <<"main", "feels_like">>, <<"main", "temp_min">>,
     <<"main", "temp_max">>, <<"main", "humidity">>, <<"main", "pressure">>,
     <<"", "weather">>, <<"weather", "[0]">>, <<"weather[0]", "main">>,
     <<"weather[0]", "description">>, <<"weather[0]", "icon">>,
     <<"", "wind">>, <<"wind", "speed">>, <<"wind", "deg">>,
     <<"", "clouds">>, <<"clouds", "all">>, <<"", "visibility">>,
     <<"sys", "sunrise">>, <<"sys", "sunset">>, <<"", "timezone">>}

\* The body d without the field f.
Lacking(d, f) ==
    CASE f[1] = "" -> Without(d, f[2])
      [] f = <<"weather", "[0]">> ->
            IF "weather" \in DOMAIN d THEN [d EXCEPT !.weather = <<>>] ELSE d
      [] f[1] = "weather[0]" ->
            IF "weather" \in DOMAIN d /\ d.weather # <<>>
            THEN [d EXCEPT !.weather = <<Without(d.weather[1], f[2])>>]
            ELSE d
      [] OTHER -> WithoutIn(d, f[1], f[2])

\* Current-weather bodies: complete ones, and ones lacking one or two
\* fields.
WeatherBodies ==
    {GoodWeather(i) : i \in IconCodes}
        \cup {Lacking(Lacking(GoodWeather("01d"), f), g) :
                 f \in WeatherFields, g \in WeatherFields}

IconAt == <<"01n", "02d", "10d", "13n", "50d", "99x", "04d", "11d">>
TimeAt == <<"2024-01-01 00:00:00", "2024-01-01 03:00:00",
            "2024-01-01 06:00:00", "2024-01-01 09:00:00",
            "2024-01-01 12:00:00", "2024-01-01 15:00:00",
            "2024-01-01 18:00:00", "2024-01-01 21:00:00">>

\* The i-th complete item of a forecast list.
GoodItem(i) ==
    [dt_txt |-> TimeAt[((i - 1) % Len(TimeAt)) + 1],
     main |-> [temp |-> 1504 + 100 * i, feels_like |-> 1446 + 100 * i,
               humidity |-> 80],
     weather |-> <<[main |-> "Rain",
                    description |->
                        DescriptionOf(IconAt[((i - 1) % Len(IconAt)) + 1]),
                    icon |-> IconAt[((i - 1) % Len(IconAt)) + 1]]>>,
     wind |-> [speed |-> 412]]

ItemFields ==
    {<<"", "dt_txt">>, <<"main", "temp">>, <<"", "weather">>,
     <<"weather", "[0]">>, <<"weather[0]", "icon">>, <<"wind", "speed">>}

\* A complete forecast body with n items.
GoodForecast(n) ==
    [list |-> [i \in 1..n |-> GoodItem(i)],
     city |-> [name |-> "Paris", country |-> "FR"]]

ForecastFields ==
    {<<"", "list">>, <<"", "city">>, <<"city", "name">>,
     <<"city", "country">>}

\* Forecast bodies: complete ones, ones lacking a top-level structure, ones
\* whose item i lacks a field, and ones lacking both.
ForecastBodies ==
    {GoodForecast(n) : n \in 0..MaxList}
        \cup {Lacking(GoodForecast(n), f) :
                 n \in 0..MaxList, f \in ForecastFields}
        \cup UNION {{[GoodForecast(n) EXCEPT !.list[i] = Lacking(@, f)] :
                        i \in 1..n, f \in ItemFields} : n \in 1..MaxList}
        \cup UNION {{[Without(GoodForecast(n), "city") EXCEPT
                         !.list[i] = Lacking(@, <<"weather", "[0]">>)] :
                        i \in 1..n} : n \in 1..MaxList}

\* Matches of the geocoding provider: complete, without state, without
\* coordinates.
Matches ==
    {[name |-> "London", state |-> "England", country |-> "GB",
      lat |-> 5150, lon |-> -12],
     [name |-> "London", country |-> "CA", lat |-> 4298, lon |-> -8124],
     [name |-> "Londonderry", state |-> "NH", country |-> "US"]}

RECURSIVE SeqsUpTo(_, _)
SeqsUpTo(S, n) ==
    IF n = 0 THEN {<<>>}
    ELSE SeqsUpTo(S, n - 1)
            \cup {Append(q, x) : q \in SeqsUpTo(S, n - 1), x \in S}

GeocodingBodies == SeqsUpTo(Matches, MaxMatches)

\* HTTP statuses requests.get may hand back: success, a 3xx it does not
\* follow (300 has no Location to follow), client and server errors.
Statuses == {200, 300, 401, 404, 500}

\* The provider's answers to one call.  body is <<the decoded JSON>>, or
\* None when the body is not JSON; the body of a 4xx or 5xx answer is never
\* read and is left as None.  A 3xx answer always carries JSON here.
AnswersWith(bodies) ==
    {[kind |-> "connerr", status |-> 0, body |-> None]}
        \cup {[kind |-> "http", status |-> s, body |-> None] :
                 s \in Statuses \ {300}}
        \cup {[kind |-> "http", status |-> s, body |-> Some(b)] :
                 s \in {200, 300}, b \in bodies}

WeatherAnswers == AnswersWith(WeatherBodies)
ForecastAnswers == AnswersWith(ForecastBodies)
GeocodingAnswers == AnswersWith(GeocodingBodies)

Answers(rt) ==
    CASE rt = "/api/weather/current" -> WeatherAnswers
      [] rt = "/api/weather/forecast" -> ForecastAnswers
      [] OTHER -> GeocodingAnswers

-----------------------------------------------------------------------------
(* The server *)

\* Faulty variant: one query object shared by all handlers.
request_args_Shared(r) == args[1]

\* Flask's request proxy: request.args inside the handler of request r is
\* the query of r's own request context.
request_args(r) == args[r]

Url(rt) ==
    CASE rt = "/api/weather/current" ->
            "http://api.openweathermap.org/data/2.5/weather"
      [] rt = "/api/weather/forecast" ->
            "http://api.openweathermap.org/data/2.5/forecast"
      [] rt = "/api/location/search" ->
            "http://api.openweathermap.org/geo/1.0/direct"
      [] rt = "/api/location/reverse" ->
            "http://api.openweathermap.org/geo/1.0/reverse"

Params(rt, l, key) ==
    CASE rt = "/api/weather/current" -> CurrentParams(l, key)
      [] rt = "/api/weather/forecast" -> ForecastParams(l, key)
      [] rt = "/api/location/search" -> SearchParams(l, key)
      [] rt = "/api/location/reverse" -> ReverseParams(l, key)

\* Lines 69-72 (139-141, 191-193, 229-231): what requests.get,
\* raise_for_status and json() raise on the provider's answer a.
CallFault(a, jsonAsRequestException) ==
    IF a.kind = "connerr" THEN ConnectionError
    ELSE IF raise_for_status(a.status) # NoExc THEN raise_for_status(a.status)
    ELSE IF a.body = None THEN JSONDecodeError(jsonAsRequestException)
    ELSE NoExc

\* Faulty variant: a failed call is tried again.
AfterCall_Retry(e) == IF e # NoExc THEN "call" ELSE "normalize"

\* Where the handler goes after the call: an exception raised inside try
\* goes to the except clauses, once; there is no retry.
AfterCall(e) == IF e # NoExc THEN "except" ELSE "normalize"

\* The except clauses of the handler of route rt.
ExceptClauses(rt, e, l) ==
    IF rt = "/api/weather/current" THEN CurrentExcept(e) ELSE GenericExcept(e, l)

Init ==
    /\ OPENWEATHER_API_KEY \in {"your_api_key_here", "0123456789abcdef"}
    /\ jsonErrorIsRequestException \in BOOLEAN
    /\ pc = [r \in Reqs |-> "idle"]
    /\ route = [r \in Reqs |-> ""]
    /\ args = [r \in Reqs |-> NoArgs]
    /\ locals = [r \in Reqs |-> NoArgs]
    /\ outbound = [r \in Reqs |-> <<>>]
    /\ answer = [r \in Reqs |-> None]
    /\ exc = [r \in Reqs |-> NoExc]
    /\ responses = [r \in Reqs |-> <<>>]

Startup == <<OPENWEATHER_API_KEY, jsonErrorIsRequestException>>

\* `return resp`: the handler of r ends with the response resp.
Return(r, resp) ==
    /\ responses' = [responses EXCEPT ![r] = Append(@, resp)]
    /\ pc' = [pc EXCEPT ![r] = "done"]

\* An exception e is raised inside the try block of r.
Raise(r, e) ==
    /\ exc' = [exc EXCEPT ![r] = e]
    /\ pc' = [pc EXCEPT ![r] = "except"]

\* A request for route rt with query a reaches the server and is dispatched
\* to its handler.
Arrive(r, rt, a) ==
    /\ pc[r] = "idle"
    /\ route' = [route EXCEPT ![r] = rt]
    /\ args' = [args EXCEPT ![r] = a]
    /\ pc' = [pc EXCEPT ![r] = "start"]
    /\ UNCHANGED <<Startup, locals, outbound, answer, exc, responses>>

\* health_check, test_endpoint, index: a constant response.
Static(r) ==
    /\ pc[r] = "start"
    /\ route[r] \in StaticRoutes
    /\ Return(r, CASE route[r] = "/api/health" -> health_check
                   [] route[r] = "/api/test" -> test_endpoint
                   [] route[r] = "/" -> index)
    /\ UNCHANGED <<Startup, route, args, locals, outbound, answer, exc>>

\* get_current_weather and get_forecast, lines 50-52 and 124-126.
WeatherStart(r) ==
    /\ pc[r] = "start"
    /\ route[r] \in WeatherRoutes
    /\ locals' = [locals EXCEPT ![r] = WeatherArgs(request_args(r))]
    /\ pc' = [pc EXCEPT ![r] = "call"]
    /\ UNCHANGED <<Startup, route, args, outbound, answer, exc, responses>>

\* search_location, lines 177-180.
SearchStart(r) ==
    /\ pc[r] = "start"
    /\ route[r] = "/api/location/search"
    /\ LET query == DictGet(request_args(r), "q", <<>>) IN
        /\ locals' = [locals EXCEPT ![r] = [query |-> query]]
        /\ IF QueryTooShort(query)
           THEN Return(r, JsonArray(200, <<>>))
           ELSE pc' = [pc EXCEPT ![r] = "call"] /\ UNCHANGED responses
    /\ UNCHANGED <<Startup, route, args, outbound, answer, exc>>

\* reverse_geocode, lines 213-217.
ReverseStart(r) ==
    /\ pc[r] = "start"
    /\ route[r] = "/api/location/reverse"
    /\ LET lat == DictGetOpt(request_args(r), "lat")
           lon == DictGetOpt(request_args(r), "lon") IN
        /\ locals' = [locals EXCEPT ![r] = [lat |-> lat, lon |-> lon]]
        /\ IF CoordinatesMissing(lat, lon)
           THEN Return(r, ErrorResponse(400,
                           "Latitude and longitude are required"))
           ELSE pc' = [pc EXCEPT ![r] = "call"] /\ UNCHANGED responses
    /\ UNCHANGED <<Startup, route, args, outbound, answer, exc>>

\* requests.get(url, params=params); raise_for_status(); json(): one GET to
\* the provider, answered by a.
Call(r, a) ==
    /\ pc[r] = "call"
    /\ outbound' = [outbound EXCEPT ![r] =
            Append(@, [url |-> Url(route[r]),
                       params |-> Params(route[r], locals[r],
                                         OPENWEATHER_API_KEY)])]
    /\ answer' = [answer EXCEPT ![r] = Some(a)]
    /\ LET e == CallFault(a, jsonErrorIsRequestException) IN
        /\ pc' = [pc EXCEPT ![r] = AfterCall(e)]
        /\ exc' = [exc EXCEPT ![r] = e]
        /\ locals' = IF e = NoExc
                     THEN [locals EXCEPT ![r] = [data |-> a.body[1]] @@ @]
                     ELSE locals
    /\ UNCHANGED <<Startup, route, args, responses>>

\* get_current_weather, lines 75-112.
CurrentNormalize(r) ==
    /\ pc[r] = "normalize"
    /\ route[r] = "/api/weather/current"
    /\ LET l == locals[r]
           e == FirstFault(l.data, CurrentReads) IN
        IF e # NoExc
        THEN Raise(r, e) /\ UNCHANGED responses
        ELSE Return(r, JsonObject(200, WeatherData(l.data, l.units)))
                /\ UNCHANGED exc
    /\ UNCHANGED <<Startup, route, args, locals, outbound, answer>>

\* get_forecast, lines 144-145: forecast = [] and the list to loop over.
ForecastStart(r) ==
    /\ pc[r] = "normalize"
    /\ route[r] = "/api/weather/forecast"
    /\ LET l == locals[r]
           e == Subscript(l.data, <<"list">>) IN
        IF e # NoExc
        THEN Raise(r, e) /\ UNCHANGED locals
        ELSE /\ locals' = [locals EXCEPT ![r] =
                    [items |-> Slice(l.data.list), forecast |-> <<>>] @@ @]
             /\ pc' = [pc EXCEPT ![r] = "loop"]
             /\ UNCHANGED exc
    /\ UNCHANGED <<Startup, route, args, outbound, answer, responses>>

\* get_forecast, lines 145-160: one iteration of the loop.
ForecastItem(r) ==
    /\ pc[r] = "loop"
    /\ Len(locals[r].forecast) < Len(locals[r].items)
    /\ LET l == locals[r]
           item == l.items[Len(l.forecast) + 1]
           e == FirstFault(item, ItemReads) IN
        IF e # NoExc
        THEN Raise(r, e) /\ UNCHANGED locals
        ELSE /\ locals' = [locals EXCEPT ![r].forecast =
                    Append(@, ForecastEntry(item))]
             /\ UNCHANGED <<pc, exc>>
    /\ UNCHANGED <<Startup, route, args, outbound, answer, responses>>

\* get_forecast, lines 162-169: the loop is over.
ForecastReturn(r) ==
    /\ pc[r] = "loop"
    /\ Len(locals[r].forecast) = Len(locals[r].items)
    /\ LET l == locals[r]
           e == FirstFault(l.data, ForecastReads) IN
        IF e # NoExc
        THEN Raise(r, e) /\ UNCHANGED responses
        ELSE Return(r, JsonObject(200,
                        ForecastReport(l.data, l.forecast, l.units)))
                /\ UNCHANGED exc
    /\ UNCHANGED <<Startup, route, args, locals, outbound, answer>>

\* search_location, lines 195-205.
SearchReturn(r) ==
    /\ pc[r] = "normalize"
    /\ route[r] = "/api/location/search"
    /\ Return(r, JsonArray(200, ProcessedLocations(locals[r].data)))
    /\ UNCHANGED <<Startup, route, args, locals, outbound, answer, exc>>

\* reverse_geocode, lines 233-243.
ReverseReturn(r) ==
    /\ pc[r] = "normalize"
    /\ route[r] = "/api/location/reverse"
    /\ Return(r, ReverseResult(locals[r].data))
    /\ UNCHANGED <<Startup, route, args, locals, outbound, answer, exc>>

\* The except clauses: the exception is turned into a response, or leaves
\* the handler when no clause matches.
Except(r) ==
    /\ pc[r] = "except"
    /\ LET resp == ExceptClauses(route[r], exc[r], locals[r]) IN
        IF resp = None
        THEN pc' = [pc EXCEPT ![r] = "crashed"] /\ UNCHANGED responses
        ELSE Return(r, resp[1])
    /\ UNCHANGED <<Startup, route, args, locals, outbound, answer, exc>>

\* The response is sent; everything the request created is discarded.
Finish(r) ==
    /\ pc[r] = "done"
    /\ pc' = [pc EXCEPT ![r] = "idle"]
    /\ route' = [route EXCEPT ![r] = ""]
    /\ args' = [args EXCEPT ![r] = NoArgs]
    /\ locals' = [locals EXCEPT ![r] = NoArgs]
    /\ outbound' = [outbound EXCEPT ![r] = <<>>]
    /\ answer' = [answer EXCEPT ![r] = None]
    /\ exc' = [exc EXCEPT ![r] = NoExc]
    /\ responses' = [responses EXCEPT ![r] = <<>>]
    /\ UNCHANGED Startup

\* A step of the handler of request r.
Handle(r) ==
    \/ Static(r)
    \/ WeatherStart(r)
    \/ SearchStart(r)
    \/ ReverseStart(r)
    \/ CurrentNormalize(r)
    \/ ForecastStart(r)
    \/ ForecastItem(r)
    \/ ForecastReturn(r)
    \/ SearchReturn(r)
    \/ ReverseReturn(r)
    \/ Except(r)
    \/ Finish(r)

\* One worker (request slot 1), one request at a time; every query and
\* every answer of the provider is possible.
Next ==
    \/ \E rt \in Routes : \E a \in Queries(rt) : Arrive(1, rt, a)
    \/ \E a \in Answers(route[1]) : Call(1, a)
    \/ Handle(1)

Spec == Init /\ [][Next]_vars

\* The threaded server: NumReqs requests in flight, the steps of their
\* handlers interleaved in any order, on a few queries and answers.
ThreadedRoutes ==
    {"/api/weather/current", "/api/weather/forecast", "/api/health"}

ThreadedQueries(rt) ==
    CASE rt = "/api/weather/current" -> {NoArgs, [units |-> "imperial"]}
      [] OTHER -> {NoArgs}

ThreadedAnswers(rt) ==
    CASE rt = "/api/weather/current" ->
            {[kind |-> "connerr", status |-> 0, body |-> None],
             [kind |-> "http", status |-> 404, body |-> None],
             [kind |-> "http", status |-> 200,
              body |-> Some(GoodWeather("10d"))],
             [kind |-> "http", status |-> 200,
              body |-> Some(Lacking(GoodWeather("10d"), <<"", "name">>))]}
      [] OTHER ->
            {[kind |-> "http", status |-> 200, body |-> Some(GoodForecast(2))],
             [kind |-> "http", status |-> 200,
              body |-> Some([GoodForecast(2) EXCEPT
                                !.list[2] = Lacking(@, <<"", "dt_txt">>)])]}

NextThreaded ==
    \E r \in Reqs :
        \/ \E rt \in ThreadedRoutes :
              \E a \in ThreadedQueries(rt) : Arrive(r, rt, a)
        \/ \E a \in ThreadedAnswers(route[r]) : Call(r, a)
        \/ Static(r)
        \/ WeatherStart(r)
        \/ CurrentNormalize(r)
        \/ ForecastStart(r)
        \/ ForecastItem(r)
        \/ ForecastReturn(r)
        \/ Except(r)
        \/ Finish(r)

SpecThreaded == Init /\ [][NextThreaded]_vars

-----------------------------------------------------------------------------
(* Vocabulary of the properties *)

Done(r) == pc[r] = "done"

\* The response of a finished request.
Resp(r) == responses[r][1]

\* A body that holds the error message and nothing else.
ErrorOnly(resp) == resp.kind = "object" /\ DOMAIN resp.body = {"error"}

IsSuccess(resp) == resp.status \in 200..299

ProviderBacked ==
    WeatherRoutes \cup {"/api/location/search", "/api/location/reverse"}

\* The request's q is absent, empty or a single character.
ShortQuery(a) == "q" \notin DOMAIN a \/ Len(a.q) < 2

\* The request lacks lat or lon.
LacksCoordinate(a) == "lat" \notin DOMAIN a \/ "lon" \notin DOMAIN a

\* The request gets through the handler's own validation.
PassesValidation(rt, a) ==
    CASE rt = "/api/location/search" -> ~ShortQuery(a)
      [] rt = "/api/location/reverse" ->
            ~LacksCoordinate(a) /\ a.lat # "" /\ a.lon # ""
      [] OTHER -> TRUE

-----------------------------------------------------------------------------
(* C1 *)

\* C1: a /api/location/search request whose q is absent, empty or shorter
\* than 2 characters is answered with the empty list as a success, and no
\* outbound call is ever issued for it.
C1_ShortQueryEmptyNoCall ==
    \A r \in Reqs :
        (route[r] = "/api/location/search" /\ ShortQuery(args[r])) =>
            /\ outbound[r] = <<>>
            /\ answer[r] = None
            /\ pc[r] \in {"start", "done"}
            /\ Done(r) => responses[r] = <<JsonArray(200, <<>>)>>

C1_Witness ==
    \E r \in Reqs :
        /\ route[r] = "/api/location/search"
        /\ args[r] = [q |-> <<"L">>]
        /\ Done(r)
        /\ responses[r] = <<JsonArray(200, <<>>)>>
        /\ outbound[r] = <<>>

-----------------------------------------------------------------------------
(* C2 *)

\* C2: a /api/location/reverse request that lacks lat or lon (or both) is
\* answered 400 with a body holding only an error message, and no outbound
\* call is ever issued for it.
C2_MissingCoordinate400NoCall ==
    \A r \in Reqs :
        (route[r] = "/api/location/reverse" /\ LacksCoordinate(args[r])) =>
            /\ outbound[r] = <<>>
            /\ answer[r] = None
            /\ pc[r] \in {"start", "done"}
            /\ Done(r) =>
                /\ Len(responses[r]) = 1
                /\ Resp(r).status = 400
                /\ ErrorOnly(Resp(r))

C2_Witness ==
    \E r \in Reqs :
        /\ route[r] = "/api/location/reverse"
        /\ args[r] = [lat |-> "48.85"]
        /\ Done(r)
        /\ Resp(r).status = 400
        /\ outbound[r] = <<>>

-----------------------------------------------------------------------------
(* C3 *)

\* C3: a request to a provider-backed route that passed local validation has
\* issued exactly one outbound call when it responds, never a second one,
\* also when the call failed; nothing is called after the response; the
\* static routes issue none.
C3_ExactlyOneOutboundCall ==
    \A r \in Reqs :
        /\ Len(outbound[r]) <= 1
        /\ route[r] \in StaticRoutes => outbound[r] = <<>>
        /\ responses[r] # <<>> => Done(r)
        /\ (Done(r) /\ route[r] \in ProviderBacked
                /\ PassesValidation(route[r], args[r])) =>
              /\ Len(outbound[r]) = 1
              /\ outbound[r][1].url = Url(route[r])
              /\ answer[r] # None

C3_Witness ==
    \E r \in Reqs :
        /\ route[r] = "/api/weather/forecast"
        /\ Done(r)
        /\ answer[r] # None
        /\ answer[r][1].status = 500
        /\ Len(outbound[r]) = 1

-----------------------------------------------------------------------------
(* C4 *)

\* The message of the request-failure clause for the answer a.
RequestFailedMessage(a) ==
    "Weather API request failed: " \o
        (IF a.kind = "connerr" THEN "Failed to establish a new connection"
         ELSE IF a.status < 500 THEN ToString(a.status) \o " Client Error"
         ELSE ToString(a.status) \o " Server Error")

\* The response to a failed provider call: 500, the error alone, and on
\* /api/weather/current the request-failure message.
TransportFailureReported(r) ==
    /\ Len(responses[r]) = 1
    /\ Resp(r).status = 500
    /\ ErrorOnly(Resp(r))
    /\ route[r] = "/api/weather/current" =>
          Resp(r).body.error = RequestFailedMessage(answer[r][1])

\* C4 as stated: whenever the provider call fails in transport, a connection
\* error or any non-2xx provider status, every provider-backed route answers
\* 500 with an error message, on /api/weather/current the request-failure
\* message.
C4_AnyNon2xxIs500 ==
    \A r \in Reqs :
        (/\ Done(r)
         /\ route[r] \in ProviderBacked
         /\ answer[r] # None
         /\ \/ answer[r][1].kind = "connerr"
            \/ answer[r][1].status \notin 200..299) =>
            TransportFailureReported(r)

\* C4, amended: whenever the provider call ends in a connection error or a
\* 4xx or 5xx provider status, every provider-backed route answers 500 with
\* a body holding only an error message; the provider's status is not passed
\* through, and on /api/weather/current the message is the request-failure
\* message.  (A 3xx answer that requests does not follow is not a failure
\* for raise_for_status.)
C4_ClientOrServerErrorIs500 ==
    \A r \in Reqs :
        (/\ Done(r)
         /\ route[r] \in ProviderBacked
         /\ answer[r] # None
         /\ \/ answer[r][1].kind = "connerr"
            \/ answer[r][1].status \in 400..599) =>
            TransportFailureReported(r)

C4_Witness ==
    \E r \in Reqs :
        /\ Done(r)
        /\ route[r] = "/api/weather/current"
        /\ answer[r] # None
        /\ answer[r][1].status = 404
        /\ Resp(r) = ErrorResponse(500,
                "Weather API request failed: 404 Client Error")

-----------------------------------------------------------------------------
(* C5 *)

\* Every key of a provider body the normalizers read.
FieldNames ==
    {"name", "sys", "country", "coord", "lat", "lon", "main", "temp",
     "feels_like", "temp_min", "temp_max", "humidity", "pressure", "weather",
     "description", "icon", "wind", "speed", "clouds", "all", "sunrise",
     "sunset", "timezone", "list", "dt_txt", "city"}

\* C5: whenever the provider answers 2xx with a body that lacks a structure
\* the normalizer expects (a missing key, an absent or empty weather list),
\* the response is 500 with an error message that names the missing field;
\* on /api/weather/current it is the shape-error message 'Invalid response
\* format from weather API: ...'.
C5_ShapeErrorNamesField ==
    \A r \in Reqs :
        (/\ Done(r)
         /\ route[r] \in WeatherRoutes
         /\ answer[r] # None
         /\ answer[r][1].status \in 200..299
         /\ answer[r][1].body # None
         /\ exc[r] # NoExc) =>
            /\ Len(responses[r]) = 1
            /\ Resp(r).status = 500
            /\ ErrorOnly(Resp(r))
            /\ \E k \in FieldNames :
                  Resp(r).body.error =
                     (IF route[r] = "/api/weather/current"
                      THEN "Invalid response format from weather API: "
                      ELSE "") \o "'" \o k \o "'"

-----------------------------------------------------------------------------
(* C6 *)

\* The value of key k of the match m, or the default d.
FieldOr(m, k, d) == IF k \in DOMAIN m THEN m[k] ELSE d

\* C6: on /api/location/reverse with lat and lon present, when the provider
\* call succeeds, an empty list of matches is answered 404 with a
\* descriptive error message, and a non-empty list is answered with a
\* success body built from the first match only.
C6_ReverseFirstMatchOr404 ==
    \A r \in Reqs :
        (/\ Done(r)
         /\ route[r] = "/api/location/reverse"
         /\ ~LacksCoordinate(args[r])
         /\ answer[r] # None
         /\ exc[r] = NoExc) =>
            LET matches == answer[r][1].body[1] IN
            /\ Len(responses[r]) = 1
            /\ IF matches = <<>>
               THEN /\ Resp(r).status = 404
                    /\ ErrorOnly(Resp(r))
                    /\ Resp(r).body.error =
                          "No location found for these coordinates"
               ELSE /\ Resp(r).status = 200
                    /\ Resp(r).kind = "object"
                    /\ DOMAIN Resp(r).body =
                          {"name", "state", "country", "lat", "lon"}
                    /\ Resp(r).body.name = FieldOr(matches[1], "name", "")
                    /\ Resp(r).body.state = FieldOr(matches[1], "state", "")
                    /\ Resp(r).body.country =
                          FieldOr(matches[1], "country", "")
                    /\ Resp(r).body.lat =
                          (IF "lat" \in DOMAIN matches[1]
                           THEN <<matches[1].lat>> ELSE <<>>)
                    /\ Resp(r).body.lon =
                          (IF "lon" \in DOMAIN matches[1]
                           THEN <<matches[1].lon>> ELSE <<>>)

C6_Witness ==
    \E r \in Reqs :
        /\ Done(r)
        /\ route[r] = "/api/location/reverse"
        /\ answer[r] # None
        /\ answer[r][1].status = 200
        /\ answer[r][1].body # None
        /\ answer[r][1].body[1] = <<>>
        /\ Resp(r).status = 404

C6_WitnessTwoMatches ==
    \E r \in Reqs :
        /\ Done(r)
        /\ route[r] = "/api/location/reverse"
        /\ answer[r] # None
        /\ answer[r][1].status = 200
        /\ answer[r][1].body # None
        /\ Len(answer[r][1].body[1]) = 2
        /\ answer[r][1].body[1][1] # answer[r][1].body[1][2]
        /\ Resp(r).status = 200

-----------------------------------------------------------------------------
(* C7 *)

Min(a, b) == IF a < b THEN a ELSE b

\* The complete success body of the route of r: every field of the route's
\* schema and no error field.
CompleteSuccess(r) ==
    LET resp == Resp(r) IN
    /\ resp.status = 200
    /\ CASE route[r] = "/api/weather/current" ->
              /\ resp.kind = "object"
              /\ DOMAIN resp.body =
                    {"location", "temperature", "weather", "details", "system"}
         [] route[r] = "/api/weather/forecast" ->
              /\ resp.kind = "object"
              /\ DOMAIN resp.body = {"location", "forecast", "units"}
              /\ Len(resp.body.forecast) =
                    Min(ForecastCount, Len(answer[r][1].body[1].list))
         [] route[r] = "/api/location/search" ->
              /\ resp.kind = "array"
              /\ Len(resp.items) =
                    (IF answer[r] = None THEN 0
                     ELSE Len(answer[r][1].body[1]))
         [] route[r] = "/api/location/reverse" ->
              /\ resp.kind = "object"
              /\ DOMAIN resp.body = {"name", "state", "country", "lat", "lon"}
         [] route[r] = "/api/health" ->
              /\ resp.kind = "object"
              /\ DOMAIN resp.body = {"status", "service", "version"}
         [] route[r] = "/api/test" ->
              /\ resp.kind = "object"
              /\ DOMAIN resp.body = {"message", "endpoints", "example_queries"}
         [] route[r] = "/" -> resp.kind = "html"

\* C7: on every route and for every outcome of the provider call, no failure
\* leaves the handler and the handler ends with exactly one response, which
\* is either a complete success body without an error field or a non-2xx
\* status with a body holding only the error message; a failure part-way
\* through normalization never yields the entries already built.
C7_OneResponseWholeOrError ==
    \A r \in Reqs :
        /\ pc[r] # "crashed"
        /\ Len(responses[r]) <= 1
        /\ ~Done(r) => responses[r] = <<>>
        /\ Done(r) =>
            /\ Len(responses[r]) = 1
            /\ \/ CompleteSuccess(r) /\ exc[r] = NoExc
               \/ ~IsSuccess(Resp(r)) /\ ErrorOnly(Resp(r))

\* The third forecast entry fails after two were built.
C7_Witness ==
    \E r \in Reqs :
        /\ Done(r)
        /\ route[r] = "/api/weather/forecast"
        /\ exc[r].type = "KeyError"
        /\ "forecast" \in DOMAIN locals[r]
        /\ Len(locals[r].forecast) = 2
        /\ Resp(r) = ErrorResponse(500, "'dt_txt'")

-----------------------------------------------------------------------------
(* C8 *)

\* Two finished requests with the same route, query and provider answer
\* have the same response.
SameInputsSameResponse ==
    \A r1, r2 \in Reqs :
        (/\ Done(r1) /\ Done(r2)
         /\ route[r1] = route[r2]
         /\ args[r1] = args[r2]
         /\ (answer[r1] = None) = (answer[r2] = None)
         /\ answer[r1] # None => answer[r1] = answer[r2]) =>
            responses[r1] = responses[r2]

\* Everything request r owns.
RequestState(r) ==
    <<pc[r], route[r], args[r], locals[r], outbound[r], answer[r], exc[r],
      responses[r]>>

\* A step changes the state of one request at most, and never the
\* credential.
StepIsLocal ==
    /\ OPENWEATHER_API_KEY' = OPENWEATHER_API_KEY
    /\ \A r1, r2 \in Reqs :
          (r1 # r2 /\ RequestState(r1)' # RequestState(r1)) =>
              RequestState(r2)' = RequestState(r2)

\* C8: concurrent requests are independent: under any interleaving of the
\* handlers' steps the response to a request is determined by its own
\* parameters and the provider's answer to its own call; no step of a
\* handler changes what another request holds, and the credential is never
\* modified after startup.
C8_RequestsIndependent ==
    [][SameInputsSameResponse /\ SameInputsSameResponse' /\ StepIsLocal]_vars

\* Two requests with different units, in flight together, each answered in
\* its own units from the same provider answer.
C8_Witness ==
    /\ Done(1) /\ Done(2)
    /\ route[1] = "/api/weather/current" /\ route[2] = "/api/weather/current"
    /\ args[1] = NoArgs /\ args[2] = [units |-> "imperial"]
    /\ answer[1] = answer[2]
    /\ IsSuccess(Resp(1)) /\ IsSuccess(Resp(2))
    /\ Resp(1).body.temperature.unit = "degC"
    /\ Resp(2).body.temperature.unit = "degF"

-----------------------------------------------------------------------------
(* C9 *)

\* C9: in every success response of /api/weather/current the unit label is
\* the Celsius label exactly when the request's units is metric, given or
\* by default, and the Fahrenheit label for every other value.
C9_CelsiusIffMetric ==
    \A r \in Reqs :
        (Done(r) /\ route[r] = "/api/weather/current" /\ IsSuccess(Resp(r))) =>
            LET metric == "units" \notin DOMAIN args[r]
                              \/ args[r].units = "metric" IN
            /\ Resp(r).body.temperature.unit \in {"degC", "degF"}
            /\ (Resp(r).body.temperature.unit = "degC") <=> metric

C9_Witness ==
    \E r \in Reqs :
        /\ Done(r)
        /\ route[r] = "/api/weather/current"
        /\ args[r] = [units |-> "standard"]
        /\ IsSuccess(Resp(r))
        /\ Resp(r).body.temperature.unit = "degF"

-----------------------------------------------------------------------------
(* C10 *)

Symbols ==
    {"sun", "moon", "cloud-sun", "cloud-moon", "cloud", "cloud-rain", "bolt",
     "snowflake", "smog"}

\* The symbol the specification gives for an icon code.
SymbolOf(code) ==
    CASE code = "01d" -> "sun"
      [] code = "01n" -> "moon"
      [] code = "02d" -> "cloud-sun"
      [] code = "02n" -> "cloud-moon"
      [] code \in {"03d", "03n", "04d", "04n"} -> "cloud"
      [] code \in {"09d", "09n", "10d", "10n"} -> "cloud-rain"
      [] code \in {"11d", "11n"} -> "bolt"
      [] code \in {"13d", "13n"} -> "snowflake"
      [] code \in {"50d", "50n"} -> "smog"
      [] OTHER -> "sun"

\* C10: get_weather_icon maps every icon code to one symbol of the fixed
\* set, the 18 known codes as listed and every other code to sun; and the
\* icon_class of every success response of the current-weather and forecast
\* routes is this function of the provider's icon code.
C10_IconClassIsSymbolOfCode ==
    /\ \A c \in IconCodes :
          get_weather_icon(c) \in Symbols /\ get_weather_icon(c) = SymbolOf(c)
    /\ \A r \in Reqs :
          (Done(r) /\ IsSuccess(Resp(r))) =>
            LET data == answer[r][1].body[1] IN
            /\ route[r] = "/api/weather/current" =>
                  /\ Resp(r).body.weather.icon = data.weather[1].icon
                  /\ Resp(r).body.weather.icon_class =
                        SymbolOf(data.weather[1].icon)
            /\ route[r] = "/api/weather/forecast" =>
                  \A i \in 1..Len(Resp(r).body.forecast) :
                      Resp(r).body.forecast[i].weather.icon_class =
                          SymbolOf(data.list[i].weather[1].icon)

\* An icon code outside the vocabulary, answered with the default symbol.
C10_Witness ==
    \E r \in Reqs :
        /\ Done(r)
        /\ route[r] = "/api/weather/current"
        /\ IsSuccess(Resp(r))
        /\ Resp(r).body.weather.icon = "99x"
        /\ Resp(r).body.weather.icon_class = "sun"

C10_WitnessForecast ==
    \E r \in Reqs :
        /\ Done(r)
        /\ route[r] = "/api/weather/forecast"
        /\ IsSuccess(Resp(r))
        /\ Len(Resp(r).body.forecast) = ForecastCount
        /\ Resp(r).body.forecast[3].weather.icon_class = "cloud-rain"

====
